---- MODULE Spec2Model ----
(***************************************************************************)
(* Model of src/models/BnnModel.py: the reparameterized Bayesian linear    *)
(* layer (BnnLayer), the two-layer BayesianModel and the two variable      *)
(* depth networks (MLPBayesianModel, DropoutBayesianModel).                *)
(*                                                                         *)
(* Tensors are modelled by their shape and, for parameters and samples,    *)
(* by symbolic entries.  A sampled entry loc + scale * eps is the record   *)
(* [loc, scale, eps] where eps is the index of the draw taken from the     *)
(* process-wide random source rng, and exp(v) is the record [exp |-> v].   *)
(* Activations are modelled by their shape <<B, features>>.                *)
(*                                                                         *)
(* Exceptions are named as the specification names them:                   *)
(*   ConfigurationError = the ValueError raised by the network __init__,   *)
(*   InvalidDimension   = the error torch.Tensor raises on a bad size,     *)
(*   DimensionMismatch  = the RuntimeError F.linear raises,                *)
(*   BatchSizeError     = the ValueError batch normalization raises.       *)
(***************************************************************************)
EXTENDS Integers, Sequences, FiniteSets, TLC

\* Bounds of the model.
MaxFeat == 2        \* feature sizes handed to constructors go up to MaxFeat
MaxArgs == 4        \* the variable depth constructors get 0..MaxArgs sizes
MaxBatch == 2       \* forward gets inputs of 1..MaxBatch rows
MaxDraws == 26      \* the random source hands out at most MaxDraws draws
MaxTracked == 2     \* cap on a batch normalization's num_batches_tracked

\* Program constants.
LogScaleInit == -5  \* nn.init.constant_(t, -5.0)
DropoutTenths == 2  \* nn.Dropout(0.2), in tenths

VARIABLES obj, rng, last
vars == <<obj, rng, last>>

----------------------------------------------------------------------------
\* Constructor arguments: an integer n, or the non-integer 2.5.
IntArg(n) == [isInt |-> TRUE, n |-> n]
NonIntArg == [isInt |-> FALSE, n |-> 2]
LayerArgs == {IntArg(n) : n \in -1..MaxFeat} \cup {NonIntArg}
FeatArgs == {IntArg(n) : n \in {-1} \cup 1..MaxFeat}

RECURSIVE SeqsUpTo(_, _)
SeqsUpTo(S, n) ==
    IF n = 0 THEN {<<>>}
    ELSE LET shorter == SeqsUpTo(S, n - 1)
         IN shorter \cup {Append(s, a) : s \in {t \in shorter : Len(t) = n - 1}, a \in S}

Numel(shape) == IF Len(shape) = 2 THEN shape[1] * shape[2] ELSE shape[1]

Fill(shape, v) ==
    [shape |-> shape,
     data |-> IF Len(shape) = 2
              THEN [r \in 1..shape[1] |-> [c \in 1..shape[2] |-> v]]
              ELSE [r \in 1..shape[1] |-> v]]

\* torch.Tensor(*sizes): an uninitialized tensor; a non-integer or negative
\* size raises.
TorchTensor(sizes) ==
    IF \E k \in 1..Len(sizes) : ~sizes[k].isInt \/ sizes[k].n < 0
    THEN [status |-> "InvalidDimension", t |-> <<>>]
    ELSE [status |-> "ok",
          t |-> Fill([k \in 1..Len(sizes) |-> sizes[k].n], "uninitialized")]

\* nn.init.kaiming_normal_(t, mode="fan_in", nonlinearity="relu"): every entry
\* is one draw from Normal(0, sqrt(2 / fan_in)); a zero-element tensor is left
\* alone and nothing is drawn.
KaimingNormal(t) ==
    IF Numel(t.shape) = 0 THEN t
    ELSE Fill(t.shape, [dist |-> "normal", gain2 |-> 2, fan_in |-> t.shape[2]])
KaimingDraws(t) == Numel(t.shape)

InitConstant(t, v) == Fill(t.shape, v)
InitZeros(t) == Fill(t.shape, 0)

\* Variant: bias_std zeroed like bias_mu.
reset_parameters_ZeroStd(layer) ==
    [layer EXCEPT !.weight_mu = KaimingNormal(layer.weight_mu),
                  !.weight_std = InitConstant(layer.weight_std, LogScaleInit),
                  !.bias_mu = InitZeros(layer.bias_mu),
                  !.bias_std = InitZeros(layer.bias_std)]

\* BnnLayer.reset_parameters
reset_parameters(layer) ==
    [layer EXCEPT !.weight_mu = KaimingNormal(layer.weight_mu),
                  !.weight_std = InitConstant(layer.weight_std, LogScaleInit),
                  !.bias_mu = InitZeros(layer.bias_mu),
                  !.bias_std = InitConstant(layer.bias_std, LogScaleInit)]

\* BnnLayer.__init__: [status, m, rng]
Allocated(in_features, out_features, w, b, r) ==
    IF w.status # "ok" THEN [status |-> w.status, m |-> <<>>, rng |-> r]
    ELSE IF b.status # "ok" THEN [status |-> b.status, m |-> <<>>, rng |-> r]
    ELSE [status |-> "ok",
          m |-> reset_parameters(
                  [kind |-> "BnnLayer",
                   in_features |-> in_features.n,
                   out_features |-> out_features.n,
                   weight_mu |-> w.t, weight_std |-> w.t,
                   bias_mu |-> b.t, bias_std |-> b.t]),
          rng |-> r + KaimingDraws(w.t)]
BnnLayerInit(in_features, out_features, r) ==
    Allocated(in_features, out_features,
              TorchTensor(<<out_features, in_features>>),
              TorchTensor(<<out_features>>), r)

----------------------------------------------------------------------------
\* One executed operation of a forward pass: the module, the stage of the
\* network it belongs to, the shapes it saw and produced (<<>> when it
\* raised) and, for a BnnLayer, the parameters it sampled.
Rec(mod, inShape, outShape, weight, bias) ==
    [mod |-> mod, stage |-> 1, inShape |-> inShape, outShape |-> outShape,
     weight |-> weight, bias |-> bias]

\* torch.exp, entry by entry.
Exp(t) ==
    [shape |-> t.shape,
     data |-> IF Len(t.shape) = 2
              THEN [r \in 1..t.shape[1] |-> [c \in 1..t.shape[2] |-> [exp |-> t.data[r][c]]]]
              ELSE [r \in 1..t.shape[1] |-> [exp |-> t.data[r]]]]

\* torch.distributions.Normal(loc, scale)
Normal(loc, scale) == [loc |-> loc, scale |-> scale]

\* Variant: the noise is drawn once and kept, not drawn on every call.
RSample_Cached(dist, r) ==
    LET shape == dist.loc.shape
    IN [shape |-> shape,
        data |-> IF Len(shape) = 2
                 THEN [i \in 1..shape[1] |-> [j \in 1..shape[2] |->
                         [loc |-> dist.loc.data[i][j],
                          scale |-> dist.scale.data[i][j],
                          eps |-> (i - 1) * shape[2] + j]]]
                 ELSE [i \in 1..shape[1] |->
                         [loc |-> dist.loc.data[i],
                          scale |-> dist.scale.data[i],
                          eps |-> i]]]

\* Normal.rsample(): eps = one standard normal draw per entry, taken from the
\* random source after draw r; the sample is loc + eps * scale.
RSample(dist, r) ==
    LET shape == dist.loc.shape
    IN [shape |-> shape,
        data |-> IF Len(shape) = 2
                 THEN [i \in 1..shape[1] |-> [j \in 1..shape[2] |->
                         [loc |-> dist.loc.data[i][j],
                          scale |-> dist.scale.data[i][j],
                          eps |-> r + (i - 1) * shape[2] + j]]]
                 ELSE [i \in 1..shape[1] |->
                         [loc |-> dist.loc.data[i],
                          scale |-> dist.scale.data[i],
                          eps |-> r + i]]]

\* Variant: the affine map does not check the trailing dimension.
FLinear_NoCheck(x, weight, bias) ==
    [status |-> "ok", x |-> <<x[1], weight.shape[1]>>]

\* F.linear(x, weight, bias) on shapes: x @ weight^T + bias.
FLinear(x, weight, bias) ==
    IF x[2] # weight.shape[2]
    THEN [status |-> "DimensionMismatch", x |-> <<>>]
    ELSE [status |-> "ok", x |-> <<x[1], weight.shape[1]>>]

\* BnnLayer.forward: [status, x, rng, m, recs]
Applied(m, x, weight, bias, y, r) ==
    [status |-> y.status, x |-> y.x, rng |-> r, m |-> m,
     recs |-> <<Rec("BnnLayer", x, y.x, weight, bias)>>]
Sampled(m, x, weight, bias, r) ==
    Applied(m, x, weight, bias, FLinear(x, weight, bias), r + Numel(bias.shape))
BnnLayerForward(m, x, r, training) ==
    Sampled(m, x,
            RSample(Normal(m.weight_mu, Exp(m.weight_std)), r),
            RSample(Normal(m.bias_mu, Exp(m.bias_std)), r + Numel(m.weight_mu.shape)),
            r + Numel(m.weight_mu.shape))

\* nn.BatchNorm1d(num_features): running statistics start at 0 and 1; an
\* entry counts the momentum updates applied to it.
BatchNorm1d(num_features) ==
    [kind |-> "BatchNorm1d", num_features |-> num_features,
     running_mean |-> Fill(<<num_features>>, [init |-> 0, updates |-> 0]),
     running_var |-> Fill(<<num_features>>, [init |-> 1, updates |-> 0]),
     num_batches_tracked |-> 0]

UpdateRunning(t) ==
    [t EXCEPT !.data = [c \in 1..t.shape[1] |->
                          [t.data[c] EXCEPT !.updates = @ + 1]]]

\* Variant: the running statistics are tracked in evaluation mode too.
BatchNormForward_TrackInEval(m, x, r, training) ==
    IF training /\ x[1] = 1
    THEN [status |-> "BatchSizeError", x |-> <<>>, rng |-> r,
          m |-> [m EXCEPT !.num_batches_tracked = @ + 1],
          recs |-> <<Rec("BatchNorm1d", x, <<>>, <<>>, <<>>)>>]
    ELSE [status |-> "ok", x |-> x, rng |-> r,
          m |-> [m EXCEPT !.num_batches_tracked = @ + 1,
                          !.running_mean = UpdateRunning(@),
                          !.running_var = UpdateRunning(@)],
          recs |-> <<Rec("BatchNorm1d", x, x, <<>>, <<>>)>>]

\* Variant: the batch size is not verified.
BatchNormForward_NoVerify(m, x, r, training) ==
    [status |-> "ok", x |-> x, rng |-> r,
     m |-> IF training
           THEN [m EXCEPT !.num_batches_tracked = @ + 1,
                          !.running_mean = UpdateRunning(@),
                          !.running_var = UpdateRunning(@)]
           ELSE m,
     recs |-> <<Rec("BatchNorm1d", x, x, <<>>, <<>>)>>]

\* BatchNorm1d.forward on a 2-D input: in training mode the batch counter is
\* bumped first, then the batch size is verified, then the running
\* statistics are updated; in evaluation mode nothing is stored.
BatchNormForward(m, x, r, training) ==
    LET counted == IF training
                   THEN [m EXCEPT !.num_batches_tracked = @ + 1]
                   ELSE m
    IN IF training /\ x[1] = 1
       THEN [status |-> "BatchSizeError", x |-> <<>>, rng |-> r, m |-> counted,
             recs |-> <<Rec("BatchNorm1d", x, <<>>, <<>>, <<>>)>>]
       ELSE IF x[2] # m.num_features
       THEN [status |-> "ChannelMismatch", x |-> <<>>, rng |-> r, m |-> counted,
             recs |-> <<Rec("BatchNorm1d", x, <<>>, <<>>, <<>>)>>]
       ELSE [status |-> "ok", x |-> x, rng |-> r,
             m |-> IF training
                   THEN [counted EXCEPT !.running_mean = UpdateRunning(@),
                                        !.running_var = UpdateRunning(@)]
                   ELSE m,
             recs |-> <<Rec("BatchNorm1d", x, x, <<>>, <<>>)>>]

\* nn.ReLU / F.relu
ReLU == [kind |-> "ReLU"]
ReLUForward(m, x, r, training) ==
    [status |-> "ok", x |-> x, rng |-> r, m |-> m,
     recs |-> <<Rec("ReLU", x, x, <<>>, <<>>)>>]

\* nn.Dropout(p): in training mode one mask draw per activation entry.
Dropout(tenths) == [kind |-> "Dropout", p |-> tenths]
DropoutForward(m, x, r, training) ==
    [status |-> "ok", x |-> x,
     rng |-> IF training THEN r + Numel(x) ELSE r,
     m |-> m, recs |-> <<Rec("Dropout", x, x, <<>>, <<>>)>>]

LeafForward(m, x, r, training) ==
    CASE m.kind = "BnnLayer" -> BnnLayerForward(m, x, r, training)
      [] m.kind = "BatchNorm1d" -> BatchNormForward(m, x, r, training)
      [] m.kind = "ReLU" -> ReLUForward(m, x, r, training)
      [] m.kind = "Dropout" -> DropoutForward(m, x, r, training)

\* nn.Sequential(*mods) and its forward: each module in order, the first
\* exception ends the pass.  st = [status, x, rng, mods, recs].
Sequential(mods) == [kind |-> "Sequential", mods |-> mods]

AtStage(recs, k) == [n \in 1..Len(recs) |-> [recs[n] EXCEPT !.stage = k]]

\* The running state of a pass over a module list, the state after module k
\* returned res (its operations belong to stage s), and the result of the
\* pass for the container m holding the list in field f.
Start(mods, x, r) ==
    [status |-> "ok", x |-> x, rng |-> r, mods |-> mods, recs |-> <<>>]
\* Variant: layer(x) called without assigning its result to x.
Stepped_Unassigned(st, k, s, res) ==
    [status |-> res.status, x |-> IF res.status = "ok" THEN st.x ELSE res.x,
     rng |-> res.rng,
     mods |-> [st.mods EXCEPT ![k] = res.m],
     recs |-> st.recs \o AtStage(res.recs, s)]
Stepped(st, k, s, res) ==
    [status |-> res.status, x |-> res.x, rng |-> res.rng,
     mods |-> [st.mods EXCEPT ![k] = res.m],
     recs |-> st.recs \o AtStage(res.recs, s)]
Ran(m, f, res) ==
    [status |-> res.status, x |-> res.x, rng |-> res.rng,
     m |-> [m EXCEPT ![f] = res.mods], recs |-> res.recs]

RECURSIVE RunLeaves(_, _, _)
RunLeaves(st, k, training) ==
    IF k > Len(st.mods) \/ st.status # "ok" THEN st
    ELSE RunLeaves(Stepped(st, k, k, LeafForward(st.mods[k], st.x, st.rng, training)),
                   k + 1, training)

SequentialForward(m, x, r, training) ==
    Ran(m, "mods", RunLeaves(Start(m.mods, x, r), 1, training))

ModuleCall(m, x, r, training) ==
    IF m.kind = "Sequential" THEN SequentialForward(m, x, r, training)
    ELSE LeafForward(m, x, r, training)

----------------------------------------------------------------------------
\* BayesianModel.__init__: layer1, then layer2.
TwoLayers(l1, l2) ==
    IF l2.status # "ok" THEN l2
    ELSE [status |-> "ok",
          m |-> [kind |-> "BayesianModel", layer1 |-> l1.m, layer2 |-> l2.m],
          rng |-> l2.rng]
AfterLayer1(l1, hidden_size, output_size) ==
    IF l1.status # "ok" THEN l1
    ELSE TwoLayers(l1, BnnLayerInit(hidden_size, output_size, l1.rng))
BayesianModelInit(input_size, hidden_size, output_size, r) ==
    AfterLayer1(BnnLayerInit(input_size, hidden_size, r), hidden_size, output_size)

Joined(m, recs, c) ==
    [status |-> c.status, x |-> c.x, rng |-> c.rng, m |-> m,
     recs |-> AtStage(recs, 1) \o AtStage(c.recs, 2)]

\* BayesianModel.forward: x = F.relu(self.layer1(x)); x = self.layer2(x)
Layer2Of(m, a, b, training) ==
    Joined(m, a.recs \o b.recs, BnnLayerForward(m.layer2, b.x, b.rng, training))
\* Variant: layer2 applied to layer1's output directly.
ReluOf_Skipped(m, a, training) ==
    IF a.status # "ok" THEN [a EXCEPT !.m = m]
    ELSE Joined(m, a.recs, BnnLayerForward(m.layer2, a.x, a.rng, training))
ReluOf(m, a, training) ==
    IF a.status # "ok" THEN [a EXCEPT !.m = m]
    ELSE Layer2Of(m, a, ReLUForward(ReLU, a.x, a.rng, training), training)
BayesianModelForward(m, x, r, training) ==
    ReluOf(m, BnnLayerForward(m.layer1, x, r, training), training)

\* Variant: the minimum the error message states, two values.
TooFewFeatures_Two(args) == Len(args) < 2

\* The check both variable depth constructors start with.
TooFewFeatures(args) == Len(args) < 3

\* One pass of the loop of MLPBayesianModel.__init__; i is the 1-based index
\* of the stage (Python's i + 1).
\* Variant: the loop bound used for the test, so the last stage is wrapped too.
MLPWrap_AllActivated(num_features, i, l) ==
    IF l.status # "ok" THEN l
    ELSE IF i - 1 < Len(num_features) - 1
    THEN [l EXCEPT !.m = Sequential(<<l.m, ReLU>>)]
    ELSE l
MLPWrap(num_features, i, l) ==
    IF l.status # "ok" THEN l
    ELSE IF i - 1 < Len(num_features) - 2
    THEN [l EXCEPT !.m = Sequential(<<l.m, ReLU>>)]
    ELSE l
MLPStage(num_features, i, r) ==
    MLPWrap(num_features, i, BnnLayerInit(num_features[i], num_features[i + 1], r))

\* One pass of the loop of DropoutBayesianModel.__init__.
DropoutWrap(num_features, i, l) ==
    IF l.status # "ok" THEN l
    ELSE IF i - 1 < Len(num_features) - 2
    THEN [l EXCEPT !.m = Sequential(<<l.m, BatchNorm1d(num_features[i + 1].n),
                                     ReLU, Dropout(DropoutTenths)>>)]
    ELSE l
DropoutStage(num_features, i, r) ==
    DropoutWrap(num_features, i, BnnLayerInit(num_features[i], num_features[i + 1], r))

StageOf(cls, num_features, i, r) ==
    IF cls = "MLPBayesianModel" THEN MLPStage(num_features, i, r)
    ELSE DropoutStage(num_features, i, r)

\* for i in range(len(num_features) - 1): ... self.layers.append(layer)
RECURSIVE BuildLayers(_, _, _, _)
Appended(st, s) ==
    [status |-> s.status,
     layers |-> IF s.status = "ok" THEN Append(st.layers, s.m) ELSE st.layers,
     rng |-> s.rng]
BuildLayers(cls, num_features, i, st) ==
    IF i > Len(num_features) - 1 \/ st.status # "ok" THEN st
    ELSE BuildLayers(cls, num_features, i + 1,
                     Appended(st, StageOf(cls, num_features, i, st.rng)))

\* nn.ParameterList(self.layers): the stages, kept in list order.
ParameterList(layers) == layers

Built(cls, b) ==
    IF b.status # "ok" THEN [status |-> b.status, m |-> <<>>, rng |-> b.rng]
    ELSE [status |-> "ok",
          m |-> [kind |-> cls, layers |-> ParameterList(b.layers)],
          rng |-> b.rng]

\* MLPBayesianModel.__init__ / DropoutBayesianModel.__init__
NetworkInit(cls, args, r) ==
    IF TooFewFeatures(args)
    THEN [status |-> "ConfigurationError", m |-> <<>>, rng |-> r]
    ELSE Built(cls, BuildLayers(cls, args, 1,
                                [status |-> "ok", layers |-> <<>>, rng |-> r]))

\* for layer in self.layers: x = layer(x)
RECURSIVE RunStages(_, _, _)
RunStages(st, k, training) ==
    IF k > Len(st.mods) \/ st.status # "ok" THEN st
    ELSE RunStages(Stepped(st, k, k, ModuleCall(st.mods[k], st.x, st.rng, training)),
                   k + 1, training)

\* MLPBayesianModel.forward / DropoutBayesianModel.forward
NetworkForward(m, x, r, training) ==
    Ran(m, "layers", RunStages(Start(m.layers, x, r), 1, training))

----------------------------------------------------------------------------
\* The state: the component the caller holds (obj), the number of draws the
\* process-wide random source has handed out (rng) and the outcome of the
\* last call (last).
NoObj == [cls |-> "none"]
\* The caller constructs one component, first thing; a constructor that
\* raises ends the run.
Fresh == last.op = "none"
Networks == {"MLPBayesianModel", "DropoutBayesianModel"}

Outcome(op, cls, args, status, x, out, rng0, recs) ==
    [op |-> op, cls |-> cls, args |-> args, status |-> status, x |-> x,
     out |-> out, rng0 |-> rng0, recs |-> recs]

Init ==
    /\ obj = NoObj
    /\ rng = 0
    /\ last = Outcome("none", "none", <<>>, "ok", <<>>, <<>>, 0, <<>>)

\* A constructor call returning res: the caller gets the object (a fresh
\* nn.Module is in training mode) or the exception.
Constructed(cls, args, res) ==
    /\ res.rng <= MaxDraws
    /\ obj' = IF res.status = "ok"
              THEN [cls |-> cls, training |-> TRUE, m |-> res.m]
              ELSE NoObj
    /\ rng' = res.rng
    /\ last' = Outcome("construct", cls, args, res.status, <<>>, <<>>, rng, <<>>)

NewBnnLayer ==
    /\ Fresh
    /\ \E i \in LayerArgs, o \in LayerArgs :
          Constructed("BnnLayer", <<i, o>>, BnnLayerInit(i, o, rng))

NewBayesianModel ==
    /\ Fresh
    /\ \E i \in FeatArgs, h \in FeatArgs, o \in FeatArgs :
          Constructed("BayesianModel", <<i, h, o>>, BayesianModelInit(i, h, o, rng))

NewMLPBayesianModel ==
    /\ Fresh
    /\ \E args \in SeqsUpTo(FeatArgs, MaxArgs) :
          Constructed("MLPBayesianModel", args,
                      NetworkInit("MLPBayesianModel", args, rng))

NewDropoutBayesianModel ==
    /\ Fresh
    /\ \E args \in SeqsUpTo(FeatArgs, MaxArgs) :
          Constructed("DropoutBayesianModel", args,
                      NetworkInit("DropoutBayesianModel", args, rng))

\* The largest num_batches_tracked among the batch normalizations of m.
Tracked(m) ==
    IF m.kind \notin Networks THEN 0
    ELSE LET counts == {m.layers[k].mods[n].num_batches_tracked :
                          k \in {s \in 1..Len(m.layers) : m.layers[s].kind = "Sequential"},
                          n \in {2} \cap {q \in 1..4 : m.kind = "DropoutBayesianModel"}}
         IN IF counts = {} THEN 0 ELSE CHOOSE c \in counts : \A d \in counts : d <= c

\* A forward call returning res: the output or the exception, and whatever
\* the pass stored before it ended.
Forwarded(x, res) ==
    /\ res.rng <= MaxDraws
    /\ Tracked(res.m) <= MaxTracked
    /\ obj' = [obj EXCEPT !.m = res.m]
    /\ rng' = res.rng
    /\ last' = Outcome("forward", obj.cls, <<>>, res.status, x,
                       IF res.status = "ok" THEN res.x ELSE <<>>, rng, res.recs)

Inputs == {<<B, d>> : B \in 1..MaxBatch, d \in 1..MaxFeat}

LayerForward ==
    /\ obj.cls = "BnnLayer"
    /\ \E x \in Inputs : Forwarded(x, BnnLayerForward(obj.m, x, rng, obj.training))

ModelForward ==
    /\ obj.cls = "BayesianModel"
    /\ \E x \in Inputs : Forwarded(x, BayesianModelForward(obj.m, x, rng, obj.training))

MLPForward ==
    /\ obj.cls = "MLPBayesianModel"
    /\ \E x \in Inputs : Forwarded(x, NetworkForward(obj.m, x, rng, obj.training))

DropoutModelForward ==
    /\ obj.cls = "DropoutBayesianModel"
    /\ \E x \in Inputs : Forwarded(x, NetworkForward(obj.m, x, rng, obj.training))

\* nn.Module.train() / nn.Module.eval()
SetMode(mode, training) ==
    /\ obj # NoObj
    /\ obj.training # training
    /\ obj' = [obj EXCEPT !.training = training]
    /\ rng' = rng
    /\ last' = Outcome(mode, obj.cls, <<>>, "ok", <<>>, <<>>, rng, <<>>)

Train == SetMode("train", TRUE)
Eval == SetMode("eval", FALSE)

Next ==
    \/ NewBnnLayer
    \/ NewBayesianModel
    \/ NewMLPBayesianModel
    \/ NewDropoutBayesianModel
    \/ LayerForward
    \/ ModelForward
    \/ MLPForward
    \/ DropoutModelForward
    \/ Train
    \/ Eval

Spec == Init /\ [][Next]_vars

----------------------------------------------------------------------------
\* Reading the component the caller holds.
StageLayer(stage) == IF stage.kind = "Sequential" THEN stage.mods[1] ELSE stage

\* The BnnLayer of stage k (layer1 and layer2 of a BayesianModel are its
\* stages 1 and 2).
LayerAt(o, k) ==
    CASE o.cls = "BnnLayer" -> o.m
      [] o.cls = "BayesianModel" -> IF k = 1 THEN o.m.layer1 ELSE o.m.layer2
      [] OTHER -> StageLayer(o.m.layers[k])

NumStages(o) ==
    CASE o.cls = "BnnLayer" -> 1
      [] o.cls = "BayesianModel" -> 2
      [] OTHER -> Len(o.m.layers)

InFeatures(o) == LayerAt(o, 1).in_features
OutFeatures(o) == LayerAt(o, NumStages(o)).out_features

Kinds(mods) == [n \in 1..Len(mods) |-> mods[n].kind]
Mods(recs) == [n \in 1..Len(recs) |-> recs[n].mod]
LayerRecs(recs) == SelectSeq(recs, LAMBDA rec : rec.mod = "BnnLayer")

\* The draws a sampled tensor consumed.
EpsOf(t) ==
    IF Len(t.shape) = 2
    THEN {t.data[i][j].eps : i \in 1..t.shape[1], j \in 1..t.shape[2]}
    ELSE {t.data[i].eps : i \in 1..t.shape[1]}
RecEps(rec) == EpsOf(rec.weight) \cup EpsOf(rec.bias)

AllPositive(args) == \A k \in 1..Len(args) : args[k].isInt /\ args[k].n > 0

----------------------------------------------------------------------------
\* C1: a variable depth network constructor fails with ConfigurationError
\* exactly when it is given fewer than 3 feature sizes, and then no stage has
\* been built: nothing was drawn for a weight and the caller holds no object.
C1_TooFewFeatureSizes ==
    (last.op = "construct" /\ last.cls \in Networks) =>
        /\ (last.status = "ConfigurationError") <=> (Len(last.args) < 3)
        /\ last.status = "ConfigurationError" => (obj = NoObj /\ rng = last.rng0)

C1_Witness ==
    /\ last.op = "construct" /\ last.cls \in Networks
    /\ Len(last.args) = 2 /\ AllPositive(last.args)
    /\ last.status = "ConfigurationError"

\* C2: a network constructed from N >= 3 sizes holds N-1 stages in order;
\* stage i holds a BnnLayer(sizes[i] -> sizes[i+1]); every stage but the last
\* is layer, ReLU (regularized: layer, BatchNorm1d(sizes[i+1]), ReLU,
\* Dropout(0.2)); the last stage is the bare layer.
C2_StageOk(cls, sizes, i, stage) ==
    /\ LET l == StageLayer(stage)
       IN /\ l.kind = "BnnLayer"
          /\ l.in_features = sizes[i].n /\ l.out_features = sizes[i + 1].n
          /\ l.weight_mu.shape = <<sizes[i + 1].n, sizes[i].n>>
    /\ IF i = Len(sizes) - 1 THEN stage.kind = "BnnLayer"
       ELSE /\ stage.kind = "Sequential"
            /\ IF cls = "MLPBayesianModel"
               THEN Kinds(stage.mods) = <<"BnnLayer", "ReLU">>
               ELSE /\ Kinds(stage.mods) = <<"BnnLayer", "BatchNorm1d", "ReLU", "Dropout">>
                    /\ stage.mods[2].num_features = sizes[i + 1].n
                    /\ stage.mods[4].p = 2

C2_StageStructure ==
    (last.op = "construct" /\ last.cls \in Networks /\ last.status = "ok") =>
        /\ Len(last.args) >= 3
        /\ obj.cls = last.cls
        /\ Len(obj.m.layers) = Len(last.args) - 1
        /\ \A i \in 1..Len(obj.m.layers) :
              C2_StageOk(last.cls, last.args, i, obj.m.layers[i])

C2_Witness ==
    /\ last.op = "construct" /\ last.cls = "DropoutBayesianModel"
    /\ last.status = "ok" /\ Len(last.args) = 4
    /\ Len(obj.m.layers) = 3

\* C3: forward on a network given an input of shape [B, sizes[0]] applies
\* the stages 1..N-1 once each in construction order, each fed the output of
\* the one before, and returns shape [B, sizes[N-1]]; no stage after the
\* first fails on a dimension mismatch.  (Batch normalization's B > 1
\* requirement in training mode is the one case the pass ends early.)
C3_Chained(recs, x, out) ==
    /\ recs[1].inShape = x
    /\ recs[Len(recs)].outShape = out
    /\ \A n \in 1..Len(recs) - 1 :
          /\ recs[n + 1].inShape = recs[n].outShape
          /\ recs[n].stage <= recs[n + 1].stage

C4_ForwardStoresNothing ==
    [][last'.op = "forward" => obj' = obj]_vars

\* C4 as amended: a forward call leaves the stored state of the component
\* as it was, except on a DropoutBayesianModel in training mode, whose
\* batch normalizations keep running statistics and a batch counter: there
\* every call that returns has changed the stored state.
C4_ForwardStoresOnlyBatchStatistics ==
    [][last'.op = "forward" =>
          IF obj.cls = "DropoutBayesianModel" /\ obj.training
          THEN last'.status = "ok" => obj' # obj
          ELSE obj' = obj]_vars

C4_Witness ==
    /\ last.op = "forward" /\ last.status = "ok"
    /\ obj.cls = "DropoutBayesianModel" /\ ~obj.training
    /\ Tracked(obj.m) > 0

\* C5: forward on any component with an input whose trailing dimension is
\* not the component's input size raises DimensionMismatch out of the first
\* layer: nothing is returned and nothing further is attempted.
C5_MismatchRaises ==
    (last.op = "forward" /\ last.x[2] # InFeatures(obj)) =>
        /\ last.status = "DimensionMismatch"
        /\ last.out = <<>>
        /\ Mods(last.recs) = <<"BnnLayer">>

C5_Witness ==
    /\ last.op = "forward" /\ last.cls = "DropoutBayesianModel"
    /\ last.x[2] # InFeatures(obj)
    /\ last.status = "DimensionMismatch"

\* C6: constructing a BnnLayer with an in_features or out_features that is
\* not a positive integer raises InvalidDimension and yields no layer.
C6_NonPositiveRejected ==
    (last.op = "construct" /\ last.cls = "BnnLayer" /\ ~AllPositive(last.args)) =>
        (last.status = "InvalidDimension" /\ obj = NoObj)

\* C7: in training mode a batch of one row makes the regularized network
\* raise BatchSizeError with nothing returned, while the plain network
\* accepts it.
C7_BatchOfOne ==
    (/\ last.op = "forward" /\ last.cls \in Networks
     /\ obj.training /\ last.x = <<1, InFeatures(obj)>>) =>
        IF last.cls = "DropoutBayesianModel"
        THEN last.status = "BatchSizeError" /\ last.out = <<>>
        ELSE last.status = "ok" /\ last.out = <<1, OutFeatures(obj)>>

C7_Witness ==
    /\ last.op = "forward" /\ last.cls = "DropoutBayesianModel"
    /\ obj.training /\ last.x = <<1, InFeatures(obj)>>
    /\ last.status = "BatchSizeError"

\* C8: every BnnLayer forward of a call samples one value per weight entry
\* and one per bias entry as mean + exp(log_scale) * noise, and every noise
\* value is a draw of its own taken during that call: none is shared between
\* entries or layers, none was drawn before the call began.
C8_SampleOk(l, rec) ==
    /\ rec.weight.shape = <<l.out_features, l.in_features>>
    /\ rec.bias.shape = <<l.out_features>>
    /\ \A i \in 1..l.out_features :
          /\ rec.bias.data[i].loc = l.bias_mu.data[i]
          /\ rec.bias.data[i].scale = [exp |-> l.bias_std.data[i]]
          /\ \A j \in 1..l.in_features :
                /\ rec.weight.data[i][j].loc = l.weight_mu.data[i][j]
                /\ rec.weight.data[i][j].scale = [exp |-> l.weight_std.data[i][j]]
    /\ Cardinality(RecEps(rec)) = l.out_features * l.in_features + l.out_features
    /\ \A e \in RecEps(rec) : last.rng0 < e /\ e <= rng

C8_FreshNoise ==
    last.op = "forward" =>
        LET recs == LayerRecs(last.recs)
        IN /\ \A n \in 1..Len(recs) : C8_SampleOk(LayerAt(obj, recs[n].stage), recs[n])
           /\ \A n \in 1..Len(recs), q \in 1..Len(recs) :
                 n # q => RecEps(recs[n]) \cap RecEps(recs[q]) = {}

C8_Witness ==
    /\ last.op = "forward" /\ last.cls = "DropoutBayesianModel"
    /\ last.status = "ok"
    /\ Tracked(obj.m) = 2
    /\ Len(LayerRecs(last.recs)) >= 2

\* C9: for positive integers in_features and out_features the BnnLayer
\* constructor succeeds; weight_mu and weight_std have shape
\* (out_features, in_features), bias_mu and bias_std have length
\* out_features, every weight_std and bias_std entry is -5 and every bias_mu
\* entry is 0.
C9_LayerInitialised ==
    (last.op = "construct" /\ last.cls = "BnnLayer" /\ AllPositive(last.args)) =>
        /\ last.status = "ok"
        /\ obj.cls = "BnnLayer"
        /\ LET i == last.args[1].n
               o == last.args[2].n
               l == obj.m
           IN /\ l.in_features = i /\ l.out_features = o
              /\ l.weight_mu.shape = <<o, i>> /\ l.weight_std.shape = <<o, i>>
              /\ l.bias_mu.shape = <<o>> /\ l.bias_std.shape = <<o>>
              /\ DOMAIN l.weight_mu.data = 1..o /\ DOMAIN l.weight_std.data = 1..o
              /\ DOMAIN l.bias_mu.data = 1..o /\ DOMAIN l.bias_std.data = 1..o
              /\ \A r \in 1..o :
                    /\ l.bias_mu.data[r] = 0
                    /\ l.bias_std.data[r] = -5
                    /\ DOMAIN l.weight_mu.data[r] = 1..i
                    /\ DOMAIN l.weight_std.data[r] = 1..i
                    /\ \A c \in 1..i : l.weight_std.data[r][c] = -5

C9_Witness ==
    /\ last.op = "construct" /\ last.cls = "BnnLayer"
    /\ last.args = <<IntArg(2), IntArg(1)>>
    /\ last.status = "ok"
    /\ obj.m.weight_std.shape = <<1, 2>>

\* C10: BayesianModel(input_size, hidden_size, output_size) holds layer1
\* (input_size -> hidden_size) and layer2 (hidden_size -> output_size);
\* forward computes layer2(relu(layer1(x))), sampling layer1 before layer2,
\* with no normalization and no dropout, and maps [B, input_size] to
\* [B, output_size].
C10_FixedDepth ==
    /\ (last.op = "construct" /\ last.cls = "BayesianModel" /\ last.status = "ok") =>
          /\ obj.m.layer1.kind = "BnnLayer" /\ obj.m.layer2.kind = "BnnLayer"
          /\ obj.m.layer1.in_features = last.args[1].n
          /\ obj.m.layer1.out_features = last.args[2].n
          /\ obj.m.layer2.in_features = last.args[2].n
          /\ obj.m.layer2.out_features = last.args[3].n
    /\ (/\ last.op = "forward" /\ last.cls = "BayesianModel"
        /\ last.x[2] = obj.m.layer1.in_features) =>
          /\ last.status = "ok"
          /\ last.out = <<last.x[1], obj.m.layer2.out_features>>
          /\ Mods(last.recs) = <<"BnnLayer", "ReLU", "BnnLayer">>
          /\ last.recs[1].weight.shape = obj.m.layer1.weight_mu.shape
          /\ last.recs[1].inShape = last.x
          /\ last.recs[2].inShape = last.recs[1].outShape
          /\ last.recs[3].weight.shape = obj.m.layer2.weight_mu.shape
          /\ last.recs[3].inShape = last.recs[2].outShape
          /\ last.recs[3].outShape = last.out
          /\ \A a \in RecEps(last.recs[1]), b \in RecEps(last.recs[3]) : a < b

C10_Witness ==
    /\ last.op = "forward" /\ last.cls = "BayesianModel"
    /\ last.status = "ok"
    /\ last.x = <<2, 2>> /\ last.out = <<2, 1>>
    /\ obj.m.layer1.out_features = 2

====
